---- MODULE Spec2Model ----
(***************************************************************************)
(* Model of the nes-utils workspace:                                       *)
(*   ines-parser : parse_header, Ines::from_bytes, Ines::from_reader       *)
(*   lemonade    : Lemonade (iterator over 16-byte sprites), Sprite::to_rgb*)
(*                                                                         *)
(* An input (byte slice or stream) is the record [hdr, len]: len is the    *)
(* number of bytes, hdr holds the first Min(len, 16) of them.  The bytes   *)
(* behind the header are never inspected by the parser; a region of the    *)
(* input is the interval [off, off + len) of input bytes it holds, either  *)
(* as a borrowed view (from_bytes) or as an owned copy (from_reader).      *)
(***************************************************************************)
EXTENDS Integers, Sequences, FiniteSets, TLC

VARIABLES
    data,          \* the input bytes handed to from_bytes / from_reader
    bytesResult,   \* outcome of Ines::from_bytes(data)
    rpc,           \* position of Ines::from_reader in its body
    pos,           \* stream cursor of input_stream
    rheader,       \* from_reader: local `header`
    rtrainer,      \* from_reader: local `trainer`
    rprg,          \* from_reader: local `prg_rom`
    reads,         \* the read_exact calls issued on the stream, in order
    readerResult,  \* outcome of Ines::from_reader(stream over data)
    parsed,        \* outcome of parse_header(data) called on its own
    region,        \* lemonade: the byte slice handed to Lemonade::new
    sprites,       \* lemonade: Lemonade.sprites (ChunksExact cursor)
    yielded,       \* lemonade: the sprites returned by next(), in order
    ended,         \* lemonade: next() has returned None
    num,           \* lemonade: last num_sprites() call
    palette,       \* lemonade: the palette handed to to_rgb
    rgb            \* lemonade: last to_rgb() call

vars == <<data, bytesResult, rpc, pos, rheader, rtrainer, rprg, reads,
          readerResult, parsed, region, sprites, yielded, ended, num, palette, rgb>>

tileVars == <<region, sprites, yielded, ended, num, palette, rgb>>

----------------------------------------------------------------------------
(* Bounds of the model *)

MaxPrgChunks == 2
MaxChrChunks == 2
MaxShortLen == 17
MaxRegionLen == 53

----------------------------------------------------------------------------
(* Constants of ines-parser *)

MAGIC_BYTES == <<78, 69, 83, 26>>
HEADER_SIZE == 16
TRAINER_SIZE == 512
PRG_ROM_CHUNK_SIZE == 16384
CHR_ROM_CHUNK_SIZE == 8192

(* Constants of lemonade *)

SPRITE_SIZE == 16
SPRITE_WIDTH_HEIGHT == 8

----------------------------------------------------------------------------
(* Values *)

None == [kind |-> "None"]
Some(x) == [kind |-> "Some", val |-> x]

Panic == [kind |-> "Panic"]
ErrIo == [kind |-> "Err", error |-> "Io"]
ErrMagicBytesMismatch(b) == [kind |-> "Err", error |-> "MagicBytesMismatch", bytes |-> b]

Borrowed(from, to) == [cow |-> "Borrowed", off |-> from, len |-> to - from]
Owned(from, n) == [cow |-> "Owned", off |-> from, len |-> n]

\* u8 arithmetic: num >> idx, a | b
Shr(n, idx) == n \div (2 ^ idx)

RECURSIVE BitOr(_, _)
BitOr(a, b) ==
    IF a = 0 THEN b
    ELSE IF b = 0 THEN a
    ELSE (IF a % 2 = 1 \/ b % 2 = 1 THEN 1 ELSE 0) + 2 * BitOr(a \div 2, b \div 2)

\* header_data[i] (0-based), for i below the slice's length
ByteAt(d, i) == d.hdr[i + 1]

----------------------------------------------------------------------------
(* ines-parser: parse_header *)

bit_at(n, idx) == (Shr(n, idx) % 2) = 1

\* faulty variant: the mirroring bit is tested before the four-screen bit
vram_layout_mirror_first(flags) ==
    IF bit_at(flags, 0) THEN "VerticalMirroring"
    ELSE IF bit_at(flags, 3) THEN "FourScreen"
    ELSE "HorizontalMirroring"

vram_layout_of(flags) ==
    IF bit_at(flags, 3) THEN "FourScreen"
    ELSE IF bit_at(flags, 0) THEN "VerticalMirroring"
    ELSE "HorizontalMirroring"

mapper_number_of(b6, b7) == BitOr(b7 % 16, Shr(b6, 4))

\* faulty variant: only "NES" is compared, the MS-DOS EOF byte is not
magic_mismatch_3(magic_bytes) == SubSeq(magic_bytes, 1, 3) # SubSeq(MAGIC_BYTES, 1, 3)

magic_mismatch(magic_bytes) == magic_bytes # MAGIC_BYTES

parse_header(header_data) ==
    IF header_data.len < 4 THEN Panic            \* header_data[0..4]
    ELSE LET magic_bytes == SubSeq(header_data.hdr, 1, 4) IN
         IF magic_mismatch(magic_bytes) THEN ErrMagicBytesMismatch(magic_bytes)
         ELSE IF header_data.len < 8 THEN Panic  \* header_data[4] .. header_data[7]
         ELSE [kind |-> "Ok",
               header |->
                 [prg_rom_size |-> ByteAt(header_data, 4) * PRG_ROM_CHUNK_SIZE,
                  chr_rom_size |-> ByteAt(header_data, 5) * CHR_ROM_CHUNK_SIZE,
                  vram_layout |-> vram_layout_of(ByteAt(header_data, 6)),
                  has_persistent_memory |-> bit_at(ByteAt(header_data, 6), 1),
                  has_trainer |-> bit_at(ByteAt(header_data, 6), 2),
                  mapper_number |-> mapper_number_of(ByteAt(header_data, 6),
                                                     ByteAt(header_data, 7))]]

----------------------------------------------------------------------------
(* ines-parser: Ines::from_bytes *)

\* &data[from..to] is in range
InBounds(d, from, to) == from <= to /\ to <= d.len

\* faulty variant: the trainer is not skipped
after_position_no_trainer(header) == HEADER_SIZE

after_position_of(header) ==
    IF header.has_trainer THEN HEADER_SIZE + TRAINER_SIZE ELSE HEADER_SIZE

from_bytes(d) ==
    LET hdr_result == parse_header(d) IN
    IF hdr_result.kind # "Ok" THEN hdr_result
    ELSE LET header == hdr_result.header
             after_position == after_position_of(header)
             after_prg_rom == after_position + header.prg_rom_size
         IN  IF header.has_trainer /\ ~InBounds(d, HEADER_SIZE, HEADER_SIZE + TRAINER_SIZE)
             THEN Panic
             ELSE IF ~InBounds(d, after_position, after_prg_rom)
             THEN Panic
             ELSE IF header.chr_rom_size > 0
                     /\ ~InBounds(d, after_prg_rom, after_prg_rom + header.chr_rom_size)
             THEN Panic
             ELSE [kind |-> "Ok",
                   header |-> header,
                   trainer |-> IF header.has_trainer
                               THEN Some(Borrowed(HEADER_SIZE, HEADER_SIZE + TRAINER_SIZE))
                               ELSE None,
                   prg_rom |-> Borrowed(after_position, after_prg_rom),
                   chr_rom |-> IF header.chr_rom_size > 0
                               THEN Some(Borrowed(after_prg_rom,
                                                  after_prg_rom + header.chr_rom_size))
                               ELSE None]

FromBytes ==
    /\ bytesResult = None
    /\ bytesResult' = from_bytes(data)
    /\ UNCHANGED <<data, rpc, pos, rheader, rtrainer, rprg, reads, readerResult, parsed>>
    /\ UNCHANGED tileVars

----------------------------------------------------------------------------
(* ines-parser: Ines::from_reader *)

\* faulty variant: a single `read`, which reports a short read as a success
read_short(p, n) ==
    LET got == IF p + n <= data.len THEN n ELSE data.len - p IN
    [ok |-> TRUE, pos |-> p + got, off |-> p, len |-> got]

\* Read::read_exact on the stream at cursor p, for a buffer of n bytes: the buffer
\* is filled from the next n bytes, or the stream is drained and the call fails
\* (UnexpectedEof) when fewer are left
read_exact(p, n) ==
    IF p + n <= data.len
    THEN [ok |-> TRUE, pos |-> p + n, off |-> p, len |-> n]
    ELSE [ok |-> FALSE, pos |-> data.len, off |-> p, len |-> n]

Logged(r) == Append(reads, [off |-> r.off, len |-> r.len, ok |-> r.ok])

ReaderFail(r, err) ==
    /\ rpc' = "done"
    /\ readerResult' = err
    /\ pos' = r.pos
    /\ reads' = Logged(r)
    /\ UNCHANGED <<rheader, rtrainer, rprg>>

\* lines 162-165: read the header and parse it
ReaderHeader ==
    /\ rpc = "header"
    /\ LET r == read_exact(pos, HEADER_SIZE) IN
       IF ~r.ok THEN ReaderFail(r, ErrIo)
       ELSE LET header == [i \in 1..HEADER_SIZE |->
                              IF i <= r.len THEN data.hdr[r.off + i] ELSE 0]
                hdr_result == parse_header([hdr |-> header, len |-> HEADER_SIZE])
            IN
            IF hdr_result.kind # "Ok" THEN ReaderFail(r, hdr_result)
            ELSE /\ rheader' = hdr_result.header
                 /\ rpc' = "trainer"
                 /\ pos' = r.pos
                 /\ reads' = Logged(r)
                 /\ UNCHANGED <<rtrainer, rprg, readerResult>>
    /\ UNCHANGED <<data, bytesResult, parsed>>
    /\ UNCHANGED tileVars

\* faulty variant: the trainer is taken at the cursor, which is not advanced
ReaderTrainerSkipped ==
    /\ rpc = "trainer"
    /\ rtrainer' = IF rheader.has_trainer THEN Some(Owned(pos, TRAINER_SIZE)) ELSE None
    /\ rpc' = "prg"
    /\ UNCHANGED <<pos, reads, rheader, rprg, readerResult>>
    /\ UNCHANGED <<data, bytesResult, parsed>>
    /\ UNCHANGED tileVars

\* lines 167-175: read the trainer (if the ROM has one)
ReaderTrainer ==
    /\ rpc = "trainer"
    /\ IF rheader.has_trainer
       THEN LET r == read_exact(pos, TRAINER_SIZE) IN
            IF ~r.ok THEN ReaderFail(r, ErrIo)
            ELSE /\ rtrainer' = Some(Owned(r.off, r.len))
                 /\ rpc' = "prg"
                 /\ pos' = r.pos
                 /\ reads' = Logged(r)
                 /\ UNCHANGED <<rheader, rprg, readerResult>>
       ELSE /\ rtrainer' = None
            /\ rpc' = "prg"
            /\ UNCHANGED <<pos, reads, rheader, rprg, readerResult>>
    /\ UNCHANGED <<data, bytesResult, parsed>>
    /\ UNCHANGED tileVars

\* lines 177-180: read the PRG ROM
ReaderPrg ==
    /\ rpc = "prg"
    /\ LET r == read_exact(pos, rheader.prg_rom_size) IN
       IF ~r.ok THEN ReaderFail(r, ErrIo)
       ELSE /\ rprg' = Owned(r.off, r.len)
            /\ rpc' = "chr"
            /\ pos' = r.pos
            /\ reads' = Logged(r)
            /\ UNCHANGED <<rheader, rtrainer, readerResult>>
    /\ UNCHANGED <<data, bytesResult, parsed>>
    /\ UNCHANGED tileVars

ReaderOk(chr_rom) ==
    [kind |-> "Ok", header |-> rheader, trainer |-> rtrainer,
     prg_rom |-> rprg, chr_rom |-> chr_rom]

\* lines 182-197: read the CHR ROM (if any) and return the container
ReaderChr ==
    /\ rpc = "chr"
    /\ IF rheader.chr_rom_size > 0
       THEN LET r == read_exact(pos, rheader.chr_rom_size) IN
            IF ~r.ok THEN ReaderFail(r, ErrIo)
            ELSE /\ readerResult' = ReaderOk(Some(Owned(r.off, r.len)))
                 /\ rpc' = "done"
                 /\ pos' = r.pos
                 /\ reads' = Logged(r)
                 /\ UNCHANGED <<rheader, rtrainer, rprg>>
       ELSE /\ readerResult' = ReaderOk(None)
            /\ rpc' = "done"
            /\ UNCHANGED <<pos, reads, rheader, rtrainer, rprg>>
    /\ UNCHANGED <<data, bytesResult, parsed>>
    /\ UNCHANGED tileVars

----------------------------------------------------------------------------
(* Inputs of the parser *)

MagicChoices == {MAGIC_BYTES, <<0, 0, 0, 0>>, <<78, 69, 83, 27>>}
Byte6Choices == {0, 1, 4, 6, 8, 13, 16, 244}
Byte7Choices == {0, 2}

\* the 16 header bytes; bytes 8..15 are never read by the parser
HeaderBytes(m, b4, b5, b6, b7) == m \o <<b4, b5, b6, b7>> \o <<0, 0, 0, 0, 0, 0, 0, 0>>

\* ends of the trainer / PRG ROM / CHR ROM regions a header within the bounds can declare
Boundaries ==
    { HEADER_SIZE + t * TRAINER_SIZE + p * PRG_ROM_CHUNK_SIZE + c * CHR_ROM_CHUNK_SIZE :
        t \in 0..1, p \in 0..MaxPrgChunks, c \in 0..MaxChrChunks }

InputLens == (0..MaxShortLen) \cup { b + e : b \in Boundaries, e \in {-1, 0, 1} }

Input(h, n) == [hdr |-> SubSeq(h, 1, IF n < HEADER_SIZE THEN n ELSE HEADER_SIZE), len |-> n]

TilesIdle ==
    /\ region = <<>>
    /\ sprites = None
    /\ yielded = <<>>
    /\ ended = FALSE
    /\ num = None
    /\ palette = None
    /\ rgb = None

ParserStart ==
    /\ bytesResult = None
    /\ rpc = "header"
    /\ pos = 0
    /\ rheader = None
    /\ rtrainer = None
    /\ rprg = None
    /\ reads = <<>>
    /\ readerResult = None
    /\ parsed = None

Init ==
    /\ \E m \in MagicChoices, b4 \in 0..MaxPrgChunks, b5 \in 0..MaxChrChunks,
          b6 \in Byte6Choices, b7 \in Byte7Choices, n \in InputLens :
          data = Input(HeaderBytes(m, b4, b5, b6, b7), n)
    /\ ParserStart
    /\ TilesIdle

Next ==
    \/ FromBytes
    \/ ReaderHeader
    \/ ReaderTrainer
    \/ ReaderPrg
    \/ ReaderChr

Spec == Init /\ [][Next]_vars

----------------------------------------------------------------------------
(* parse_header on its own, over every value of the flag and mapper bytes *)

ParseHeader ==
    /\ parsed = None
    /\ parsed' = parse_header(data)
    /\ UNCHANGED <<data, bytesResult, rpc, pos, rheader, rtrainer, rprg, reads, readerResult>>
    /\ UNCHANGED tileVars

InitHeader ==
    /\ \E m \in {MAGIC_BYTES, <<0, 0, 0, 0>>}, b6 \in 0..255, b7 \in 0..255 :
          data = Input(HeaderBytes(m, 2, 1, b6, b7), HEADER_SIZE)
    /\ ParserStart
    /\ TilesIdle

NextHeader == ParseHeader

SpecHeader == InitHeader /\ [][NextHeader]_vars

----------------------------------------------------------------------------
(* lemonade: Lemonade (an iterator over the complete 16-byte sprites) *)

\* core::slice::ChunksExact over the slice [0, n): the cursor `v` is the view of the
\* whole chunks not yet yielded; the remainder shorter than one chunk is cut off
chunks_exact(n, chunk_size) ==
    [off |-> 0, len |-> n - (n % chunk_size), chunk_size |-> chunk_size]

\* faulty variant: chunks of SPRITE_WIDTH_HEIGHT bytes instead of SPRITE_SIZE
Lemonade_new_rows(d) == chunks_exact(Len(d), SPRITE_WIDTH_HEIGHT)

Lemonade_new(d) == chunks_exact(Len(d), SPRITE_SIZE)

\* ChunksExact::len: the number of chunks left in the cursor
num_sprites(it) == it.len \div it.chunk_size

\* the bytes a view of the region refers to
SliceBytes(d, view) == SubSeq(d, view.off + 1, view.off + view.len)

\* Iterator::next for Lemonade: ChunksExact::next, wrapped into a Sprite
LemonadeNext ==
    /\ IF sprites.len < sprites.chunk_size
       THEN /\ ended' = TRUE
            /\ UNCHANGED <<sprites, yielded>>
       ELSE /\ yielded' = Append(yielded, [off |-> sprites.off, len |-> sprites.chunk_size])
            /\ sprites' = [sprites EXCEPT !.off = @ + sprites.chunk_size,
                                          !.len = @ - sprites.chunk_size]
            /\ UNCHANGED ended
    /\ UNCHANGED <<region, num, palette, rgb>>
    /\ UNCHANGED <<data, bytesResult, rpc, pos, rheader, rtrainer, rprg, reads,
                   readerResult, parsed>>

NumSprites ==
    /\ num' = Some([after |-> Len(yielded), value |-> num_sprites(sprites)])
    /\ UNCHANGED <<region, sprites, yielded, ended, palette, rgb>>
    /\ UNCHANGED <<data, bytesResult, rpc, pos, rheader, rtrainer, rprg, reads,
                   readerResult, parsed>>

----------------------------------------------------------------------------
(* lemonade: Sprite::to_rgb *)

lemonade_bit_at(n, idx) == (Shr(n, idx) % 2) = 1

\* faulty variant: the second plane is tested before both planes together
pixel_colour_plane_first(first_byte, second_byte, i, colour_palette) ==
    IF lemonade_bit_at(second_byte, i) THEN colour_palette.colours[2]
    ELSE IF lemonade_bit_at(first_byte, i) /\ lemonade_bit_at(second_byte, i)
    THEN colour_palette.colours[3]
    ELSE IF lemonade_bit_at(first_byte, i) THEN colour_palette.colours[1]
    ELSE colour_palette.background

\* lines 102-114; colours[k] of the source is colours[k + 1] here
pixel_colour(first_byte, second_byte, i, colour_palette) ==
    IF lemonade_bit_at(first_byte, i) /\ lemonade_bit_at(second_byte, i)
    THEN colour_palette.colours[3]
    ELSE IF lemonade_bit_at(second_byte, i) THEN colour_palette.colours[2]
    ELSE IF lemonade_bit_at(first_byte, i) THEN colour_palette.colours[1]
    ELSE colour_palette.background

\* the closure of lines 91-118: one row of SPRITE_WIDTH_HEIGHT colours
colour_data(first_byte, second_byte, colour_palette) ==
    [i \in 1..SPRITE_WIDTH_HEIGHT |->
        pixel_colour(first_byte, second_byte, i - 1, colour_palette)]

to_rgb(raw_sprite_data, colour_palette) ==
    LET n == Len(raw_sprite_data) \div SPRITE_WIDTH_HEIGHT
        byte_chunks == [k \in 1..n |->
            SubSeq(raw_sprite_data, (k - 1) * SPRITE_WIDTH_HEIGHT + 1,
                   k * SPRITE_WIDTH_HEIGHT)]
    IN  IF n < 2 THEN Panic       \* byte_chunks.next().unwrap()
        ELSE [kind |-> "Ok",
              grid |-> [r \in 1..SPRITE_WIDTH_HEIGHT |->
                          colour_data(byte_chunks[1][r], byte_chunks[2][r],
                                      colour_palette)]]

\* to_rgb on the sprite next() returned last
ToRgb ==
    /\ yielded # <<>>
    /\ LET sprite == yielded[Len(yielded)] IN
       rgb' = Some([sprite |-> sprite,
                    result |-> to_rgb(SliceBytes(region, sprite), palette)])
    /\ UNCHANGED <<region, sprites, yielded, ended, num, palette>>
    /\ UNCHANGED <<data, bytesResult, rpc, pos, rheader, rtrainer, rprg, reads,
                   readerResult, parsed>>

----------------------------------------------------------------------------
(* Inputs of lemonade *)

Colour_new(r, g, b) == <<r, g, b>>

ColourPalette_new(background, colours) == [background |-> background, colours |-> colours]

CLASSIC_MARIO ==
    ColourPalette_new(Colour_new(0, 0, 0),
                      <<Colour_new(189, 8, 8), Colour_new(217, 167, 57),
                        Colour_new(126, 153, 83)>>)

GREYS ==
    ColourPalette_new(Colour_new(255, 255, 255),
                      <<Colour_new(170, 170, 170), Colour_new(85, 85, 85),
                        Colour_new(0, 0, 0)>>)

Palettes == {CLASSIC_MARIO, GREYS}

\* region contents: byte i is (mul * i + add) mod 256
Muls == {1, 7, 37}
Adds == {0, 85, 128, 255}

RegionBytes(n, mul, add) == [i \in 1..n |-> (mul * (i - 1) + add) % 256]

InitTiles ==
    /\ \E n \in 0..MaxRegionLen, mul \in Muls, add \in Adds :
          region = RegionBytes(n, mul, add)
    /\ sprites = Lemonade_new(region)
    /\ yielded = <<>>
    /\ ended = FALSE
    /\ num = None
    /\ palette \in Palettes
    /\ rgb = None
    /\ data = Input(<<>>, 0)
    /\ ParserStart

NextTiles ==
    \/ LemonadeNext
    \/ NumSprites
    \/ ToRgb

SpecTiles == InitTiles /\ [][NextTiles]_vars

----------------------------------------------------------------------------
(* Properties of parse_header, checked under SpecHeader *)

\* bit k of the byte n, written out arithmetically
BitSet(n, k) == (n \div (2 ^ k)) % 2 = 1

\* C1: with a valid signature, mapper_number is the 8-bit value whose high nibble is
\* the low 4 bits of byte 7 and whose low nibble is the high 4 bits of byte 6
\* (byte6 = 0x10, byte7 = 0x02 give 0x21).
C1_MapperCombinesNibbles ==
    parsed.kind = "Ok" =>
        parsed.header.mapper_number
            = (ByteAt(data, 7) % 16) * 16 + (ByteAt(data, 6) \div 16)

\* C5: vram_layout is FourScreen whenever bit 3 of byte 6 is set, otherwise
\* VerticalMirroring when bit 0 is set and HorizontalMirroring when it is clear;
\* has_persistent_memory is bit 1, has_trainer is bit 2; the three results depend
\* on the low nibble of byte 6 only.
C5_FlagDecoding ==
    parsed.kind = "Ok" =>
        LET low == ByteAt(data, 6) % 16 IN
        /\ parsed.header.vram_layout =
              (IF BitSet(low, 3) THEN "FourScreen"
               ELSE IF BitSet(low, 0) THEN "VerticalMirroring"
               ELSE "HorizontalMirroring")
        /\ parsed.header.has_persistent_memory = BitSet(low, 1)
        /\ parsed.header.has_trainer = BitSet(low, 2)

\* byte 6 = 0xF9: bits 3 and 0 set, mapper bits set; decoded as FourScreen
C5_Witness ==
    /\ parsed.kind = "Ok"
    /\ ByteAt(data, 6) = 249
    /\ parsed.header.vram_layout = "FourScreen"
    /\ ~parsed.header.has_trainer

----------------------------------------------------------------------------
(* Properties of from_bytes and from_reader, checked under Spec *)

BadMagic == data.len >= 4 /\ SubSeq(data.hdr, 1, 4) # MAGIC_BYTES

MismatchOfInput == ErrMagicBytesMismatch(SubSeq(data.hdr, 1, 4))

\* the header bytes of an input that has them
B4 == ByteAt(data, 4)
B5 == ByteAt(data, 5)
B6 == ByteAt(data, 6)

\* two regions hold the same bytes of the input
SameBytes(a, b) == a.off = b.off /\ a.len = b.len

SameOption(a, b) ==
    /\ a.kind = b.kind
    /\ a.kind = "Some" => SameBytes(a.val, b.val)

\* C2: from_bytes never panics, whatever the length of the buffer: a buffer too
\* short for the header or for a declared region gives an Err value, and an Ok
\* container never holds a region shorter than the header declares.
C2_FromBytesNeverPanics ==
    /\ bytesResult.kind \in {"None", "Ok", "Err"}
    /\ bytesResult.kind = "Ok" =>
          /\ bytesResult.prg_rom.len = bytesResult.header.prg_rom_size
          /\ bytesResult.chr_rom.kind = "Some" =>
                bytesResult.chr_rom.val.len = bytesResult.header.chr_rom_size

\* C3 as stated: any input whose first 4 bytes are not the signature fails with
\* MagicBytesMismatch carrying those bytes, from both entry points, whatever the
\* rest of the input is.
C3_MismatchWhateverLength ==
    BadMagic =>
        /\ bytesResult # None => bytesResult = MismatchOfInput
        /\ rpc = "done" => readerResult = MismatchOfInput

\* C3 amended: from_bytes on a buffer of at least 4 bytes, and from_reader on a
\* stream of at least 16 bytes, whose first 4 bytes are not the signature fail
\* with MagicBytesMismatch carrying those 4 bytes.
C3_MismatchWhenHeaderRead ==
    BadMagic =>
        /\ bytesResult # None => bytesResult = MismatchOfInput
        /\ (rpc = "done" /\ data.len >= HEADER_SIZE) => readerResult = MismatchOfInput

C3_Witness ==
    /\ BadMagic
    /\ data.hdr[4] = 27
    /\ data.len >= HEADER_SIZE
    /\ bytesResult = MismatchOfInput
    /\ readerResult = MismatchOfInput

\* C4: from_bytes and from_reader on the same bytes have the same outcome: one
\* succeeds exactly when the other does, and then the header fields, the presence
\* of trainer and chr_rom and the bytes of trainer, prg_rom and chr_rom agree.
C4_SameOutcome ==
    (bytesResult # None /\ rpc = "done") =>
        /\ (bytesResult.kind = "Ok") <=> (readerResult.kind = "Ok")
        /\ bytesResult.kind = "Ok" =>
              /\ bytesResult.header = readerResult.header
              /\ SameOption(bytesResult.trainer, readerResult.trainer)
              /\ SameBytes(bytesResult.prg_rom, readerResult.prg_rom)
              /\ SameOption(bytesResult.chr_rom, readerResult.chr_rom)

C4_Witness ==
    /\ bytesResult.kind = "Ok"
    /\ readerResult.kind = "Ok"
    /\ readerResult.trainer.kind = "Some"
    /\ readerResult.chr_rom.kind = "Some"
    /\ readerResult.prg_rom.len > 0
    /\ readerResult.prg_rom.cow = "Owned"
    /\ bytesResult.prg_rom.cow = "Borrowed"

\* C6: when from_bytes succeeds on B, trainer is present iff bit 2 of B[6] is set
\* and is B[16..528]; prg_rom starts at 16 (no trainer) or 528 (trainer) and has
\* B[4] * 16384 bytes; chr_rom is present iff B[5] > 0 and is the B[5] * 8192
\* bytes right after prg_rom; the regions lie inside B, one after the other.
C6_RegionLayout ==
    bytesResult.kind = "Ok" =>
        LET t == bytesResult.trainer
            p == bytesResult.prg_rom
            c == bytesResult.chr_rom
        IN  /\ (t.kind = "Some") <=> BitSet(B6, 2)
            /\ t.kind = "Some" => (t.val.off = 16 /\ t.val.len = 512)
            /\ p.off = (IF BitSet(B6, 2) THEN 528 ELSE 16)
            /\ p.len = B4 * 16384
            /\ (c.kind = "Some") <=> (B5 > 0)
            /\ c.kind = "Some" => (c.val.off = p.off + p.len /\ c.val.len = B5 * 8192)
            /\ p.off + p.len + (IF c.kind = "Some" THEN c.val.len ELSE 0) <= data.len

C6_Witness ==
    /\ bytesResult.kind = "Ok"
    /\ bytesResult.trainer.kind = "Some"
    /\ bytesResult.prg_rom.off = 528
    /\ bytesResult.prg_rom.len = 16384
    /\ bytesResult.chr_rom.kind = "Some"
    /\ bytesResult.chr_rom.val.off = 528 + 16384

\* the read_exact calls from_reader has to issue for the input, by their sizes
ExpectedReads ==
    IF data.len < 16 \/ SubSeq(data.hdr, 1, 4) # MAGIC_BYTES THEN <<16>>
    ELSE <<16>> \o (IF BitSet(B6, 2) THEN <<512>> ELSE <<>>)
               \o <<B4 * 16384>>
               \o (IF B5 > 0 THEN <<B5 * 8192>> ELSE <<>>)

RECURSIVE SumFirst(_, _)
SumFirst(seq, n) == IF n = 0 THEN 0 ELSE seq[n] + SumFirst(seq, n - 1)

\* C10: from_reader reads header (16), trainer (512, if bit 2 of byte 6), program
\* data (byte4 * 16384), graphics data (byte5 * 8192, if byte5 > 0), in this order
\* and back to back; on success it has consumed exactly their sum; a stream that
\* ends before one of the reads is satisfied gives Err(Io), never an Ok container.
C10_ReadOrder ==
    LET e == ExpectedReads IN
    /\ Len(reads) <= Len(e)
    /\ \A i \in 1..Len(reads) :
          /\ reads[i].len = e[i]
          /\ reads[i].off = SumFirst(e, i - 1)
          /\ ~reads[i].ok => (i = Len(reads) /\ rpc = "done" /\ readerResult = ErrIo)
    /\ readerResult.kind = "Ok" =>
          /\ Len(reads) = Len(e)
          /\ pos = SumFirst(e, Len(e))
          /\ readerResult.prg_rom.len = B4 * 16384
          /\ readerResult.trainer.kind = "Some" => readerResult.trainer.val.len = 512
          /\ readerResult.chr_rom.kind = "Some" => readerResult.chr_rom.val.len = B5 * 8192
    /\ (rpc = "done" /\ data.len < SumFirst(e, Len(e))) => readerResult = ErrIo

C10_Witness ==
    /\ readerResult.kind = "Ok"
    /\ Len(reads) = 4
    /\ pos = 16 + 512 + 16384 + 8192
    /\ data.len > pos

----------------------------------------------------------------------------
(* Properties of lemonade, checked under SpecTiles *)

\* C7: next() on a fresh Lemonade over a region of L bytes yields exactly
\* floor(L / 16) sprites and then None; the k-th sprite (from 0) is the view of
\* region[16k .. 16k + 16]; the trailing L mod 16 bytes are in no sprite.
C7_TilesInOrder ==
    /\ Len(yielded) <= Len(region) \div 16
    /\ \A k \in 1..Len(yielded) :
          /\ yielded[k] = [off |-> 16 * (k - 1), len |-> 16]
          /\ SliceBytes(region, yielded[k]) = SubSeq(region, 16 * (k - 1) + 1, 16 * k)
    /\ ended => Len(yielded) = Len(region) \div 16

C7_Witness ==
    /\ Len(region) = 3 * 16 + 5
    /\ Len(yielded) = 3
    /\ ended

\* C8: num_sprites() returns floor(L / 16) for a region of L bytes, on a fresh
\* sequence and after any number of next() calls.
C8_NumSpritesIsTotal ==
    num.kind = "Some" => num.val.value = Len(region) \div 16

\* C9: to_rgb gives an 8x8 grid whose pixel at row r, column c is decided by bit c
\* of byte r (plane A) and bit c of byte 8 + r (plane B): both set, colours[2];
\* only plane B, colours[1]; only plane A, colours[0]; neither, the background.
C9_BitplaneDecode ==
    rgb.kind = "Some" =>
        LET raw == SliceBytes(region, rgb.val.sprite) IN
        /\ rgb.val.result.kind = "Ok"
        /\ \A r \in 0..7, c \in 0..7 :
              LET a == BitSet(raw[r + 1], c)
                  b == BitSet(raw[8 + r + 1], c)
              IN  rgb.val.result.grid[r + 1][c + 1] =
                     (IF a /\ b THEN palette.colours[3]
                      ELSE IF b THEN palette.colours[2]
                      ELSE IF a THEN palette.colours[1]
                      ELSE palette.background)

\* a decoded sprite whose first row shows all four colours of the palette
C9_Witness ==
    /\ rgb.kind = "Some"
    /\ rgb.val.result.kind = "Ok"
    /\ \A col \in {palette.background, palette.colours[1], palette.colours[2],
                   palette.colours[3]} :
          \E c \in 1..8 : rgb.val.result.grid[1][c] = col

====
